---- MODULE Spec2Model ----
(***************************************************************************)
(* Liquid water flux from SNODAS snow water equivalent and CaPA            *)
(* precipitation: calculate_lwf (lwf_calc/lwf.py) and                      *)
(* resample_SNODAS_to_CaPA (lwf_calc/resample.py) as state machines over   *)
(* small gridded datasets.                                                 *)
(*                                                                         *)
(* A dataset is a record [time, lat, lon, vals] with vals[k][i][j] the     *)
(* cell at time[k], lat[i], lon[j].  An input cell is NaN ("no data") or   *)
(* Num(n), a float64 holding the whole number n (mm); on such values       *)
(* float64 subtraction and addition are exact.  A cell of the flux arrays  *)
(* is a float64 written <<sign, hi, lo, e>>, the number                    *)
(* (-1)^sign * (hi * 2^27 + lo) * 2^e with a 53-bit mantissa, so that the  *)
(* division by 86400 * 1000 and the multiplication back round as the       *)
(* hardware rounds (to nearest, ties to even).                             *)
(***************************************************************************)
EXTENDS Integers, Sequences, FiniteSets, TLC

VARIABLES pc, err, t,
          SNODAS_SWE, CaPA, cropped, upscaled_swe, resampled,
          swe, precip, precip_current, lwf_data, ret,
          archive, request, output, log

vars == <<pc, err, t, SNODAS_SWE, CaPA, cropped, upscaled_swe, resampled,
          swe, precip, precip_current, lwf_data, ret,
          archive, request, output, log>>

\* the stored records, the requested dates, the files written and the steps
\* reported by run_pipeline.main
ioVars == <<archive, request, output, log>>
resampleVars == <<SNODAS_SWE, CaPA, cropped, upscaled_swe, resampled>>
lwfVars == <<swe, precip, precip_current, lwf_data, ret>>

(***************************************************************************)
(* Bounds of the model.                                                    *)
(***************************************************************************)
\* timestamps are the days 0..MaxDay
MaxDay == 2
\* grid coordinates of calculate_lwf's inputs are 0..MaxCoord
MaxCoord == 1

Days == 0..MaxDay
Coords == 0..MaxCoord

(***************************************************************************)
(* float64                                                                 *)
(***************************************************************************)
NaN == <<>>
Num(n) == <<n>>
IsNaN(x) == x = NaN

Zero == <<0, 0, 0, 0>>
MantBits == 53
HiBits == 26
LoBits == 27
\* big naturals are handled LimbBits bits at a time (products stay below 2^31)
LimbBits == 13
Limb == 2 ^ LimbBits
\* limbs of quotient computed by a division: more than MantBits + 1 significant bits
DivLimbs == 6

RECURSIVE BitsOfNat(_)
BitsOfNat(n) == IF n = 0 THEN <<>> ELSE Append(BitsOfNat(n \div 2), n % 2)

RECURSIVE NatOfBits(_)
NatOfBits(b) ==
    IF b = <<>> THEN 0 ELSE 2 * NatOfBits(SubSeq(b, 1, Len(b) - 1)) + b[Len(b)]

Zeros(n) == [i \in 1..n |-> 0]

PadLeft(b, n) == Zeros(n - Len(b)) \o b

\* b without its leading zero bits
Strip(b) ==
    IF \A i \in 1..Len(b) : b[i] = 0 THEN <<>>
    ELSE LET k == CHOOSE i \in 1..Len(b) : b[i] = 1 /\ \A j \in 1..(i - 1) : b[j] = 0
         IN SubSeq(b, k, Len(b))

\* b + 1
IncBits(b) ==
    IF \A i \in 1..Len(b) : b[i] = 1 THEN <<1>> \o Zeros(Len(b))
    ELSE LET k == CHOOSE i \in 1..Len(b) : b[i] = 0 /\ \A j \in (i + 1)..Len(b) : b[j] = 1
         IN SubSeq(b, 1, k - 1) \o <<1>> \o Zeros(Len(b) - k)

RECURSIVE BitsOfLimbs(_)
BitsOfLimbs(l) ==
    IF l = <<>> THEN <<>>
    ELSE PadLeft(BitsOfNat(Head(l)), LimbBits) \o BitsOfLimbs(Tail(l))

Pack(s, b, e) ==
    <<s, NatOfBits(SubSeq(b, 1, HiBits)), NatOfBits(SubSeq(b, HiBits + 1, MantBits)), e>>

MantOf(x) == PadLeft(BitsOfNat(x[2]), HiBits) \o PadLeft(BitsOfNat(x[3]), LoBits)

\* The float64 nearest to (-1)^s * (b + fraction) * 2^e, where b is a bit string
\* starting with 1 and sticky says that the fraction below b is not zero: round
\* to nearest, ties to even.
RoundBits(s, b, sticky, e) ==
    IF Len(b) <= MantBits
    THEN Pack(s, b \o Zeros(MantBits - Len(b)), e - (MantBits - Len(b)))
    ELSE LET keep == SubSeq(b, 1, MantBits)
             guard == b[MantBits + 1]
             rest == sticky \/ \E i \in (MantBits + 2)..Len(b) : b[i] = 1
             up == guard = 1 /\ (rest \/ keep[MantBits] = 1)
             r == IF up THEN IncBits(keep) ELSE keep
             e1 == e + (Len(b) - MantBits)
         IN IF Len(r) > MantBits
            THEN Pack(s, SubSeq(r, 1, MantBits), e1 + 1)
            ELSE Pack(s, r, e1)

\* the float64 holding the whole number n
FromInt(n) ==
    IF n = 0 THEN Zero
    ELSE RoundBits(IF n < 0 THEN 1 ELSE 0, BitsOfNat(IF n < 0 THEN -n ELSE n), FALSE, 0)

RECURSIVE OddPart(_)
OddPart(d) == IF d % 2 = 0 THEN OddPart(d \div 2) ELSE d

RECURSIVE TwoExp(_)
TwoExp(d) == IF d % 2 = 0 THEN 1 + TwoExp(d \div 2) ELSE 0

\* k limbs of the binary expansion of rem / d, for rem < d, and what is left
RECURSIVE DivDigits(_, _, _)
DivDigits(rem, d, k) ==
    IF k = 0 THEN [limbs |-> <<>>, rem |-> rem]
    ELSE LET r == rem * Limb
             next == DivDigits(r % d, d, k - 1)
         IN [limbs |-> <<r \div d>> \o next.limbs, rem |-> next.rem]

\* float64 division of the whole number n by the whole number d > 0: the power
\* of two in d only moves the exponent, the odd part is divided out bit by bit
FDivInt(n, d) ==
    IF n = 0 THEN Zero
    ELSE LET a == IF n < 0 THEN -n ELSE n
             o == OddPart(d)
             q == DivDigits(a % o, o, DivLimbs)
             b == Strip(BitsOfNat(a \div o) \o BitsOfLimbs(q.limbs))
         IN RoundBits(IF n < 0 THEN 1 ELSE 0, b, q.rem # 0,
                      -(DivLimbs * LimbBits) - TwoExp(d))

\* bits of (b * c + carry), b a bit string and c a whole number below 2^17
RECURSIVE MulLimbs(_, _, _)
MulLimbs(b, c, carry) ==
    IF Len(b) <= LimbBits THEN BitsOfNat(NatOfBits(b) * c + carry)
    ELSE LET lo == NatOfBits(SubSeq(b, Len(b) - LimbBits + 1, Len(b))) * c + carry
         IN MulLimbs(SubSeq(b, 1, Len(b) - LimbBits), c, lo \div Limb)
              \o PadLeft(BitsOfNat(lo % Limb), LimbBits)

\* float64 multiplication of x by the whole number c > 0
FMulInt(x, c) ==
    IF x = NaN THEN NaN
    ELSE IF x = Zero THEN Zero
    ELSE RoundBits(x[1], MulLimbs(MantOf(x), c, 0), FALSE, x[4])

\* x < 0 on a float64 (NaN < 0 is false)
FNegative(x) == x # NaN /\ x # Zero /\ x[1] = 1

(***************************************************************************)
(* Datasets                                                                *)
(***************************************************************************)
NoDataset == [time |-> <<>>, lat |-> <<>>, lon |-> <<>>, vals |-> <<>>]
NoResult == <<>>

Range(s) == {s[i] : i \in 1..Len(s)}

Min(S) == CHOOSE x \in S : \A y \in S : x <= y
Max(S) == CHOOSE x \in S : \A y \in S : x >= y

RECURSIVE SortedSeq(_)
SortedSeq(S) == IF S = {} THEN <<>> ELSE <<Min(S)>> \o SortedSeq(S \ {Min(S)})

Reverse(s) == [i \in 1..Len(s) |-> s[Len(s) + 1 - i]]

\* strictly monotonic axes over the coordinates C: ascending or descending
AxisSet(C) ==
    LET asc == {SortedSeq(S) : S \in SUBSET C \ {{}}}
    IN asc \cup {Reverse(a) : a \in asc}

\* position of label x on axis a, 0 when x is no label of a
IndexOf(a, x) == IF x \in Range(a) THEN CHOOSE i \in 1..Len(a) : a[i] = x ELSE 0

\* one time slice of a field given cell by cell as a function of the coordinates
Slice(lat, lon, Cell(_, _)) ==
    [i \in 1..Len(lat) |-> [j \in 1..Len(lon) |-> Cell(lat[i], lon[j])]]

(***************************************************************************)
(* Input fields.  A time slice is one of a few kinds, each a function of   *)
(* the cell's coordinates, so that a value stays with its (lat, lon)       *)
(* label: the values 10, 8, 1 and 0 are those of the package's scenarios.  *)
(***************************************************************************)
SweKinds == {"u8", "u10", "hole"}

SweCell(kind, a, o) ==
    CASE kind = "u8" -> Num(8)
      [] kind = "u10" -> Num(10)
      [] kind = "hole" -> IF o = 0 THEN NaN ELSE Num(10)

PrecipKinds == {"p0", "p1", "gap"}

PrecipCell(kind, a, o) ==
    CASE kind = "p0" -> Num(0)
      [] kind = "p1" -> Num(1)
      [] kind = "gap" -> IF o = 0 THEN Num(1) ELSE NaN
      [] kind = "grad" -> Num((2 * MaxCoord + 2) * a + o)

SweDataset(time, lat, lon, kinds) ==
    [time |-> time, lat |-> lat, lon |-> lon,
     vals |-> [k \in 1..Len(time) |->
                 Slice(lat, lon, LAMBDA a, o : SweCell(kinds[k], a, o))]]

PrecipDataset(time, lat, lon, kinds) ==
    [time |-> time, lat |-> lat, lon |-> lon,
     vals |-> [k \in 1..Len(time) |->
                 Slice(lat, lon, LAMBDA a, o : PrecipCell(kinds[k], a, o))]]

\* time axes: unique and ascending
SweTimes == {SortedSeq(S) : S \in SUBSET Days \ {{}}}
PrecipTimes == {SortedSeq(S) : S \in SUBSET Days}

(***************************************************************************)
(* xarray operations used by calculate_lwf                                 *)
(***************************************************************************)
NotFound == [found |-> FALSE, time |-> 0, lat |-> <<>>, lon |-> <<>>, vals |-> <<>>]

\* da.sel(time=d), as written with a label that is no entry of the index:
\* the slice, or NaN in every cell
SelTimeOrNaN(da, d) ==
    LET k == IndexOf(da.time, d)
    IN [found |-> TRUE, time |-> d, lat |-> da.lat, lon |-> da.lon,
        vals |-> IF k = 0 THEN Slice(da.lat, da.lon, LAMBDA a, o : NaN) ELSE da.vals[k]]

\* da.sel(time=d): the slice whose timestamp equals d; KeyError when there is none
SelTime(da, d) ==
    LET k == IndexOf(da.time, d)
    IN IF k = 0 THEN NotFound
       ELSE [found |-> TRUE, time |-> d, lat |-> da.lat, lon |-> da.lon,
             vals |-> da.vals[k]]

\* da.isel(time=k): the slice at position k (0-based)
IselTime(da, k) ==
    IF k + 1 \in 1..Len(da.time)
    THEN [found |-> TRUE, time |-> da.time[k + 1], lat |-> da.lat, lon |-> da.lon,
          vals |-> da.vals[k + 1]]
    ELSE NotFound

\* positions paired one to one, whatever the labels
JoinIdxByPosition(x, y) ==
    [k \in 1..(IF Len(x) <= Len(y) THEN Len(x) ELSE Len(y)) |-> <<k, k>>]

\* inner join of two axes: the labels of x that are labels of y, in the order
\* of x, each as <<position in x, position in y>>
JoinIdx(x, y) ==
    LET keep == SelectSeq([i \in 1..Len(x) |-> i], LAMBDA i : x[i] \in Range(y))
    IN [k \in 1..Len(keep) |-> <<keep[k], IndexOf(y, x[keep[k]])>>]

FSub(x, y) == IF IsNaN(x) \/ IsNaN(y) THEN NaN ELSE Num(x[1] - y[1])
FAdd(x, y) == IF IsNaN(x) \/ IsNaN(y) THEN NaN ELSE Num(x[1] + y[1])

\* a - b on two slices of one array
SliceSub(a, b) ==
    [lat |-> a.lat, lon |-> a.lon,
     vals |-> [i \in 1..Len(a.lat) |-> [j \in 1..Len(a.lon) |->
                 FSub(a.vals[i][j], b.vals[i][j])]]]

\* a + p: xarray aligns the operands on their lat/lon labels (inner join)
SliceAdd(a, p) ==
    LET la == JoinIdx(a.lat, p.lat)
        lo == JoinIdx(a.lon, p.lon)
    IN [lat |-> [i \in 1..Len(la) |-> a.lat[la[i][1]]],
        lon |-> [j \in 1..Len(lo) |-> a.lon[lo[j][1]]],
        vals |-> [i \in 1..Len(la) |-> [j \in 1..Len(lo) |->
                    FAdd(a.vals[la[i][1]][lo[j][1]], p.vals[la[i][2]][lo[j][2]])]]]

MapSlice(s, F(_)) ==
    [lat |-> s.lat, lon |-> s.lon,
     vals |-> [i \in 1..Len(s.lat) |-> [j \in 1..Len(s.lon) |-> F(s.vals[i][j])]]]

\* the clamp left out
ClampIdentity(x) == x

\* the clamp written so that a comparison with NaN selects 0
ClampNaNToZero(x) == IF IsNaN(x) \/ x[1] < 0 THEN Num(0) ELSE x

\* xr.where(lwf < 0, 0, lwf) on one cell
ClampNegative(x) == IF ~IsNaN(x) /\ x[1] < 0 THEN Num(0) ELSE x

SecondsPerDay == 86400
MilliPerMetre == 1000

\* lwf / (86400 * 1000) on one cell
ToRate(x) == IF IsNaN(x) THEN NaN ELSE FDivInt(x[1], SecondsPerDay * MilliPerMetre)

\* lwf_data * 86400 * 1000 on one cell
ToDaily(x) == FMulInt(FMulInt(x, SecondsPerDay), MilliPerMetre)

\* the assignment lwf_data[t-1, :, :] = lwf accepts a DataArray whose dimension
\* coordinates equal those of the indexed array
CoordsConsistent(v, obj) == v.lat = obj.lat /\ v.lon = obj.lon

(***************************************************************************)
(* calculate_lwf                                                           *)
(***************************************************************************)
\* swe.time[:-1]
AllButLast(time) == SubSeq(time, 1, Len(time) - 1)

\* swe.time[1:], the time coordinate of lwf_data
LwfTimeAxis(time) == Tail(time)

\* precip.isel(time=tt)
PrecipCurrentByPosition(tt) == IselTime(precip, tt)

\* precip.sel(time=current_date) in the iteration with loop index tt
PrecipCurrent(tt) == SelTime(precip, swe.time[tt + 1])

SweCurrent(tt) == SelTime(swe, swe.time[tt + 1])
SwePrevious(tt) == SelTime(swe, swe.time[tt])

\* lines 11-25: lwf_data, zero-filled, on swe.time[1:] and the grid of swe
LwfBegin ==
    /\ pc = "lwf"
    /\ lwf_data' = [time |-> LwfTimeAxis(swe.time), lat |-> swe.lat, lon |-> swe.lon,
                    vals |-> [k \in 1..(Len(swe.time) - 1) |->
                                Slice(swe.lat, swe.lon, LAMBDA a, o : Zero)]]
    /\ t' = 1
    /\ pc' = "lwf_loop"
    /\ UNCHANGED <<err, swe, precip, precip_current, ret, resampleVars, ioVars>>

\* lines 28-49: one iteration of the loop, t the index into swe.time
LwfStep ==
    /\ pc = "lwf_loop"
    /\ t < Len(swe.time)
    /\ LET p == PrecipCurrent(t)
           lwf == SliceAdd(SliceSub(SwePrevious(t), SweCurrent(t)), p)
           clamped == MapSlice(lwf, ClampNegative)
           rate == MapSlice(clamped, ToRate)
       IN IF ~p.found
          THEN /\ pc' = "error"
               /\ err' = "KeyError"
               /\ UNCHANGED <<t, precip_current, lwf_data>>
          ELSE IF ~CoordsConsistent(rate, lwf_data)
          THEN /\ pc' = "error"
               /\ err' = "IndexError"
               /\ precip_current' = p
               /\ UNCHANGED <<t, lwf_data>>
          ELSE /\ lwf_data' = [lwf_data EXCEPT !.vals[t] = rate.vals]
               /\ precip_current' = p
               /\ t' = t + 1
               /\ UNCHANGED <<pc, err>>
    /\ UNCHANGED <<swe, precip, ret, resampleVars, ioVars>>

\* the values of lwf_data times 86400 times 1000, a new array
DailyVals ==
    [k \in 1..Len(lwf_data.vals) |->
       MapSlice([lat |-> lwf_data.lat, lon |-> lwf_data.lon,
                 vals |-> lwf_data.vals[k]], ToDaily).vals]

\* the return with the mm/day dataset scaled in the array of lwf_data itself
LwfReturnSharedArray ==
    /\ pc = "lwf_loop"
    /\ t >= Len(swe.time)
    /\ ret' = <<[lwf_data EXCEPT !.vals = DailyVals] @@ [units |-> "m/s", array |-> "lwf_data"],
                [time |-> lwf_data.time, lat |-> lwf_data.lat, lon |-> lwf_data.lon,
                 vals |-> DailyVals, units |-> "mm/day", array |-> "lwf_data"]>>
    /\ pc' = "done"
    /\ UNCHANGED <<err, t, swe, precip, precip_current, lwf_data, resampleVars, ioVars>>

\* lines 52-74: the two datasets, m/s and mm/day; array names the array that
\* holds the values: lwf_data itself (line 55), the product, a new array (line 65)
LwfReturn ==
    /\ pc = "lwf_loop"
    /\ t >= Len(swe.time)
    /\ ret' = <<[lwf_data EXCEPT !.vals = lwf_data.vals] @@ [units |-> "m/s", array |-> "lwf_data"],
                [time |-> lwf_data.time, lat |-> lwf_data.lat, lon |-> lwf_data.lon,
                 vals |-> DailyVals, units |-> "mm/day",
                 array |-> "lwf_data * 86400 * 1000"]>>
    /\ pc' = "done"
    /\ UNCHANGED <<err, t, swe, precip, precip_current, lwf_data, resampleVars, ioVars>>

NextLwf == LwfBegin \/ LwfStep \/ LwfReturn

\* the grid shared by swe and precip when the two are aligned
LwfLat == <<0>>
LwfLon == [i \in 1..(MaxCoord + 1) |-> i - 1]

\* no pipeline around the call
NoArchive == [snodas |-> {}, capa |-> <<>>]
NoRequest == [start_date |-> 0, end_date |-> 0]
IdleIO ==
    /\ archive = NoArchive
    /\ request = NoRequest
    /\ output = {}
    /\ log = <<>>

InitLwfCommon ==
    /\ IdleIO
    /\ pc = "lwf"
    /\ err = ""
    /\ t = 0
    /\ precip_current = NotFound
    /\ lwf_data = NoDataset
    /\ ret = NoResult
    /\ SNODAS_SWE = NoDataset
    /\ CaPA = NoDataset
    /\ cropped = NoDataset
    /\ upscaled_swe = <<>>
    /\ resampled = NoResult

\* calculate_lwf on datasets of one grid: any time axes, any kinds of slices
Init ==
    /\ InitLwfCommon
    /\ \E st \in SweTimes : \E sk \in [1..Len(st) -> SweKinds] :
         swe = SweDataset(st, LwfLat, LwfLon, sk)
    /\ \E pt \in PrecipTimes : \E pk \in [1..Len(pt) -> PrecipKinds] :
         precip = PrecipDataset(pt, LwfLat, LwfLon, pk)

Spec == Init /\ [][NextLwf]_vars

\* calculate_lwf on datasets whose grids are chosen independently: precipitation
\* differs from cell to cell and is there for every day
InitGrid ==
    /\ InitLwfCommon
    /\ \E st \in SweTimes : \E la \in AxisSet(Coords) : \E lo \in AxisSet(Coords) :
         swe = SweDataset(st, la, lo, [k \in 1..Len(st) |-> "u10"])
    /\ \E la \in AxisSet(Coords) : \E lo \in AxisSet(Coords) :
         precip = PrecipDataset(SortedSeq(Days), la, lo, [k \in 1..(MaxDay + 1) |-> "grad"])

SpecGrid == InitGrid /\ [][NextLwf]_vars

(***************************************************************************)
(* Properties of calculate_lwf                                             *)
(***************************************************************************)
N == Len(swe.time)
OutRows == 1..(N - 1)
LatIdx == 1..Len(swe.lat)
LonIdx == 1..Len(swe.lon)

SwePrevAt(tt, i, j) == swe.vals[tt][i][j]
SweCurAt(tt, i, j) == swe.vals[tt + 1][i][j]

\* the precipitation cell with timestamp swe.time[tt + 1] and the labels of cell (i, j)
PrecipAt(tt, i, j) ==
    precip.vals[IndexOf(precip.time, swe.time[tt + 1])]
               [IndexOf(precip.lat, swe.lat[i])][IndexOf(precip.lon, swe.lon[j])]

AllValid(tt, i, j) ==
    ~IsNaN(SwePrevAt(tt, i, j)) /\ ~IsNaN(SweCurAt(tt, i, j)) /\ ~IsNaN(PrecipAt(tt, i, j))

\* swe[t-1] - swe[t] + precip[t] as a whole number
RawAt(tt, i, j) == SwePrevAt(tt, i, j)[1] - SweCurAt(tt, i, j)[1] + PrecipAt(tt, i, j)[1]

FluxAt(tt, i, j) == IF RawAt(tt, i, j) < 0 THEN 0 ELSE RawAt(tt, i, j)

\* the rate of cell (i, j) for swe.time[tt + 1]: the flux over 86400000, or no data
RateAt(tt, i, j) ==
    IF AllValid(tt, i, j)
    THEN FDivInt(FluxAt(tt, i, j), SecondsPerDay * MilliPerMetre)
    ELSE NaN

\* C1: wherever swe[t-1], swe[t] and precip[t] are valid, lwf_daily is
\* max(0, swe[t-1] - swe[t] + precip[t]) and lwf_rate is that flux over 86400000.
C1_FluxFormula ==
    pc = "done" =>
      \A tt \in OutRows : \A i \in LatIdx : \A j \in LonIdx :
        AllValid(tt, i, j) =>
          /\ ret[2].vals[tt][i][j] = FromInt(FluxAt(tt, i, j))
          /\ ret[1].vals[tt][i][j] = FDivInt(FluxAt(tt, i, j), SecondsPerDay * MilliPerMetre)

\* C1 (what the code does keep): lwf_rate is the flux over 86400000 correctly
\* rounded, and lwf_daily is that rate times 86400 times 1000.
C1_RateHolds ==
    pc = "done" =>
      \A tt \in OutRows : \A i \in LatIdx : \A j \in LonIdx :
        AllValid(tt, i, j) =>
          /\ ret[1].vals[tt][i][j] = FDivInt(FluxAt(tt, i, j), SecondsPerDay * MilliPerMetre)
          /\ ret[2].vals[tt][i][j] = ToDaily(ret[1].vals[tt][i][j])

\* C2: every output cell that is not no data is >= 0, and a cell whose raw
\* value is negative is exactly 0 in both outputs.
C2_NonNegative ==
    pc = "done" =>
      \A r \in 1..2 : \A tt \in OutRows : \A i \in LatIdx : \A j \in LonIdx :
        /\ ~FNegative(ret[r].vals[tt][i][j])
        /\ (AllValid(tt, i, j) /\ RawAt(tt, i, j) < 0) => ret[r].vals[tt][i][j] = Zero

C2_Witness ==
    /\ pc = "done"
    /\ \E tt \in OutRows : \E i \in LatIdx : \E j \in LonIdx :
         AllValid(tt, i, j) /\ RawAt(tt, i, j) < 0 /\ ret[1].vals[tt][i][j] = Zero

\* C3: a cell with no data in swe[t-1], swe[t] or precip[t] is no data in both
\* outputs, never 0.
C3_NoDataPropagates ==
    pc = "done" =>
      \A r \in 1..2 : \A tt \in OutRows : \A i \in LatIdx : \A j \in LonIdx :
        ~AllValid(tt, i, j) => IsNaN(ret[r].vals[tt][i][j])

C3_Witness ==
    /\ pc = "done"
    /\ \E tt \in OutRows : \E i \in LatIdx : \E j \in LonIdx :
         /\ IsNaN(PrecipAt(tt, i, j))
         /\ IsNaN(ret[2].vals[tt][i][j])
    /\ \E tt \in OutRows : \E i \in LatIdx : \E j \in LonIdx :
         /\ IsNaN(SwePrevAt(tt, i, j)) /\ ~IsNaN(SweCurAt(tt, i, j))
         /\ IsNaN(ret[1].vals[tt][i][j])

\* C4: the time axis of both outputs is swe.time[1:], and output row i holds
\* the flux computed for swe.time[i+1].
C4_TemporalShift ==
    pc = "done" =>
      \A r \in 1..2 :
        /\ ret[r].time = SubSeq(swe.time, 2, N)
        /\ Len(ret[r].vals) = N - 1
        /\ \A tt \in OutRows : \A i \in LatIdx : \A j \in LonIdx :
             ret[r].vals[tt][i][j] =
               IF r = 1 THEN RateAt(tt, i, j) ELSE ToDaily(RateAt(tt, i, j))

C4_Witness ==
    /\ pc = "done"
    /\ N = 3
    /\ ret[1].time = <<swe.time[2], swe.time[3]>>
    /\ ret[1].vals[1] # ret[1].vals[2]

\* C5: the precipitation slice of the iteration for swe.time[t] is the one whose
\* timestamp equals swe.time[t], wherever it stands in precip.time, and the row
\* written by that iteration is computed from it.
C5_PrecipByTimestamp ==
    (pc \in {"lwf_loop", "done"} /\ t > 1) =>
      /\ precip_current.found
      /\ precip_current.time = swe.time[t]
      /\ precip_current.vals = precip.vals[IndexOf(precip.time, swe.time[t])]
      /\ \A i \in LatIdx : \A j \in LonIdx :
           lwf_data.vals[t - 1][i][j] =
             ToRate(ClampNegative(FAdd(FSub(swe.vals[t - 1][i][j], swe.vals[t][i][j]),
                                       precip_current.vals[i][j])))

C5_Witness ==
    /\ pc = "lwf_loop"
    /\ t > 1
    /\ IndexOf(precip.time, swe.time[t]) # t
    /\ Len(precip.time) > N
    /\ precip.time[1] # swe.time[1]
    /\ precip_current.time = swe.time[t]
    /\ t <= Len(precip.time) /\ precip.vals[t] # precip_current.vals

\* the loop indexes whose timestamp is missing from precip.time
MissingTimes == {tt \in OutRows : swe.time[tt + 1] \notin Range(precip.time)}

\* C6: when some swe.time[t], t >= 1, has no equal timestamp in precip.time,
\* calculate_lwf stops at the first such t with a key error, and returns nothing.
C6_MissingTimestampFails ==
    MissingTimes # {} =>
      /\ ret = NoResult
      /\ pc # "done"
      /\ t <= Min(MissingTimes)
      /\ pc = "error" => (err = "KeyError" /\ t = Min(MissingTimes))

C6_Witness ==
    /\ pc = "error"
    /\ err = "KeyError"
    /\ swe.time = <<0, 1>>
    /\ precip.time = <<0>>
    /\ ret = NoResult

Covered == Range(swe.lat) \subseteq Range(precip.lat) /\ Range(swe.lon) \subseteq Range(precip.lon)

MaxSteps == 2

\* the source grid lies on the even coordinates, the target grid on all of
\* them and one beyond
SrcCoords == {2 * c : c \in Coords}
TargetCoords == 0..(2 * MaxCoord + 1)

SrcKinds == {"u8", "u10", "nan", "corner", "col", "dip"}

SrcCell(kind, a, o) ==
    CASE kind = "u8" -> Num(8)
      [] kind = "u10" -> Num(10)
      [] kind = "nan" -> NaN
      [] kind = "corner" -> IF a = 0 /\ o = 0 THEN NaN ELSE Num(10)
      [] kind = "col" -> IF o = 0 THEN NaN ELSE Num(10)
      [] kind = "dip" -> IF a = 0 /\ o = 0 THEN Num(8) ELSE Num(10)

SrcDataset(time, lat, lon, kinds) ==
    [time |-> time, lat |-> lat, lon |-> lon,
     vals |-> [k \in 1..Len(time) |->
                 Slice(lat, lon, LAMBDA a, o : SrcCell(kinds[k], a, o))]]

\* the test of the crop with the upper bound on the longitude left out
InBoundsNoUpperLon(src, a, o) ==
    /\ o >= src.lon[1]
    /\ a >= src.lat[1]
    /\ a <= src.lat[Len(src.lat)]

\* lines 44-47: the condition of the crop, on the first and last entry of the
\* source axes
InBounds(src, a, o) ==
    /\ o >= src.lon[1]
    /\ o <= src.lon[Len(src.lon)]
    /\ a >= src.lat[1]
    /\ a <= src.lat[Len(src.lat)]

\* lines 44-47: CaPA.where(cond, drop=True): a label stays when the condition
\* holds somewhere along it; a cell kept where the condition fails is no data
Crop(src, tgt) ==
    LET lat == SelectSeq(tgt.lat, LAMBDA a : \E o \in Range(tgt.lon) : InBounds(src, a, o))
        lon == SelectSeq(tgt.lon, LAMBDA o : \E a \in Range(tgt.lat) : InBounds(src, a, o))
    IN [time |-> tgt.time, lat |-> lat, lon |-> lon,
        vals |-> [k \in 1..Len(tgt.time) |-> [i \in 1..Len(lat) |-> [j \in 1..Len(lon) |->
                    IF InBounds(src, lat[i], lon[j])
                    THEN tgt.vals[k][IndexOf(tgt.lat, lat[i])][IndexOf(tgt.lon, lon[j])]
                    ELSE NaN]]]]

\* lines 64-73: the (lat, lon) points of the source whose value at step k is valid
ValidPoints(src, k) ==
    {<<src.lat[i], src.lon[j]>> : <<i, j>> \in
       {ij \in (1..Len(src.lat)) \X (1..Len(src.lon)) : ~IsNaN(src.vals[k][ij[1]][ij[2]])}}

ValueAt(src, k, p) == src.vals[k][IndexOf(src.lat, p[1])][IndexOf(src.lon, p[2])]

\* twice the signed area of the triangle a b c
Cross(a, b, c) == (b[1] - a[1]) * (c[2] - a[2]) - (b[2] - a[2]) * (c[1] - a[1])

Collinear(V) == \A a \in V : \A b \in V : \A c \in V : Cross(a, b, c) = 0

\* griddata(method='linear') triangulates the points: Qhull raises when there
\* is no triangle to start from (fewer than 3 points, or all on one line)
NoTriangulation(V) == Cardinality(V) < 3 \/ Collinear(V)

\* p in the convex hull of V (V not on one line): on the inner side of every
\* line through two points of V that has all of V on one side
InHull(p, V) ==
    \A a \in V : \A b \in V :
      (a # b /\ \A v \in V : Cross(a, b, v) >= 0) => Cross(a, b, p) >= 0

Sq(x) == x * x

\* d strictly inside the circle through a, b, c (counter-clockwise)
InCircle(a, b, c, d) ==
    LET ax == a[1] - d[1]  ay == a[2] - d[2]
        bx == b[1] - d[1]  by == b[2] - d[2]
        cx == c[1] - d[1]  cy == c[2] - d[2]
    IN (Sq(ax) + Sq(ay)) * (bx * cy - cx * by)
         - (Sq(bx) + Sq(by)) * (ax * cy - cx * ay)
         + (Sq(cx) + Sq(cy)) * (ax * by - bx * ay) > 0

\* the triangles of the Delaunay triangulations of V: Qhull's choice among
\* them, for points on one circle, is not fixed by the points
DelaunayTriangles(V) ==
    {tri \in V \X V \X V :
       /\ Cross(tri[1], tri[2], tri[3]) > 0
       /\ \A d \in V : ~InCircle(tri[1], tri[2], tri[3], d)}

InTriangle(p, tri) ==
    /\ Cross(tri[1], tri[2], p) >= 0
    /\ Cross(tri[2], tri[3], p) >= 0
    /\ Cross(tri[3], tri[1], p) >= 0

RECURSIVE Gcd(_, _)
Gcd(x, y) == IF y = 0 THEN x ELSE Gcd(y, x % y)

Abs(x) == IF x < 0 THEN -x ELSE x

\* the number num / den (den > 0): Num(n) when whole, else <<num, den>> reduced
Ratio(num, den) ==
    LET g == Gcd(Abs(num), den)
    IN IF num % den = 0 THEN Num(num \div den) ELSE <<num \div g, den \div g>>

\* linear interpolation at p in the triangle tri: the barycentric mean of the
\* values at the corners
TriangleValue(src, k, tri, p) ==
    Ratio(Cross(tri[2], tri[3], p) * ValueAt(src, k, tri[1])[1]
            + Cross(tri[3], tri[1], p) * ValueAt(src, k, tri[2])[1]
            + Cross(tri[1], tri[2], p) * ValueAt(src, k, tri[3])[1],
          Cross(tri[1], tri[2], tri[3]))

\* griddata filling the cells outside the convex hull from the valid points
CellValuesExtrapolated(src, k, p) ==
    LET V == ValidPoints(src, k)
    IN IF ~InHull(p, V) THEN {ValueAt(src, k, v) : v \in V}
       ELSE {TriangleValue(src, k, tri, p) :
               tri \in {x \in DelaunayTriangles(V) : InTriangle(p, x)}}

\* the values griddata can give at p: NaN outside the convex hull
CellValues(src, k, p) ==
    LET V == ValidPoints(src, k)
    IN IF ~InHull(p, V) THEN {NaN}
       ELSE {TriangleValue(src, k, tri, p) :
               tri \in {x \in DelaunayTriangles(V) : InTriangle(p, x)}}

\* lines 76-81: the arrays griddata can return on the grid lat x lon; the
\* cells with more than one possible value are chosen one by one
GridData(src, k, lat, lon) ==
    LET cv == [c \in (1..Len(lat)) \X (1..Len(lon)) |->
                 CellValues(src, k, <<lat[c[1]], lon[c[2]]>>)]
        open == {c \in DOMAIN cv : Cardinality(cv[c]) > 1}
        all == UNION {cv[c] : c \in open}
    IN {[i \in 1..Len(lat) |-> [j \in 1..Len(lon) |->
           IF <<i, j>> \in open THEN ch[<<i, j>>] ELSE CHOOSE x \in cv[<<i, j>>] : TRUE]] :
          ch \in {f \in [open -> all] : \A c \in open : f[c] \in cv[c]}}

\* lines 40-60: crop the target to the extent of the source, allocate the result
CropTarget ==
    /\ pc = "resample"
    /\ cropped' = Crop(SNODAS_SWE, CaPA)
    /\ upscaled_swe' = [k \in 1..Len(SNODAS_SWE.time) |->
                          Slice(cropped'.lat, cropped'.lon, LAMBDA a, o : Num(0))]
    /\ t' = 0
    /\ pc' = "interp"
    /\ UNCHANGED <<err, SNODAS_SWE, CaPA, resampled, lwfVars, ioVars>>

\* lines 63-84: one time step of the interpolation, t the index of the step
InterpStep ==
    /\ pc = "interp"
    /\ t < Len(SNODAS_SWE.time)
    /\ IF NoTriangulation(ValidPoints(SNODAS_SWE, t + 1))
       THEN /\ pc' = "error"
            /\ err' = "QhullError"
            /\ UNCHANGED <<t, upscaled_swe>>
       ELSE /\ \E row \in GridData(SNODAS_SWE, t + 1, cropped.lat, cropped.lon) :
                 upscaled_swe' = [upscaled_swe EXCEPT ![t + 1] = row]
            /\ t' = t + 1
            /\ UNCHANGED <<pc, err>>
    /\ UNCHANGED <<SNODAS_SWE, CaPA, cropped, resampled, lwfVars, ioVars>>

\* the return with the resampled dataset labelled by the uncropped target axes
ResampleReturnUncroppedAxes ==
    /\ pc = "interp"
    /\ t >= Len(SNODAS_SWE.time)
    /\ resampled' = <<[time |-> SNODAS_SWE.time, lat |-> CaPA.lat,
                       lon |-> CaPA.lon, vals |-> upscaled_swe], cropped>>
    /\ pc' = "resampled"
    /\ UNCHANGED <<err, t, SNODAS_SWE, CaPA, cropped, upscaled_swe, lwfVars, ioVars>>

\* lines 86-99: the resampled dataset, on the time axis of the source and the
\* grid of the cropped target, and the cropped target
ResampleReturn ==
    /\ pc = "interp"
    /\ t >= Len(SNODAS_SWE.time)
    /\ resampled' = <<[time |-> SNODAS_SWE.time, lat |-> cropped.lat,
                       lon |-> cropped.lon, vals |-> upscaled_swe], cropped>>
    /\ pc' = "resampled"
    /\ UNCHANGED <<err, t, SNODAS_SWE, CaPA, cropped, upscaled_swe, lwfVars, ioVars>>

NextResample == CropTarget \/ InterpStep \/ ResampleReturn

\* the axes a target can have beside a source axis: the whole range, either
\* way round, or the source axis itself
TargetAxes(srcAxis) ==
    {SortedSeq(TargetCoords), Reverse(SortedSeq(TargetCoords)), srcAxis}

InitResample ==
    /\ IdleIO
    /\ pc = "resample"
    /\ err = ""
    /\ t = 0
    /\ \E n \in 1..MaxSteps : \E la \in AxisSet(SrcCoords) : \E lo \in AxisSet(SrcCoords) :
         \E sk \in [1..n -> SrcKinds] :
           SNODAS_SWE = SrcDataset([k \in 1..n |-> k - 1], la, lo, sk)
    /\ \E la \in TargetAxes(SNODAS_SWE.lat) : \E lo \in TargetAxes(SNODAS_SWE.lon) :
         CaPA = PrecipDataset(SortedSeq(Days), la, lo, [k \in 1..(MaxDay + 1) |-> "grad"])
    /\ cropped = NoDataset
    /\ upscaled_swe = <<>>
    /\ resampled = NoResult
    /\ swe = NoDataset
    /\ precip = NoDataset
    /\ precip_current = NotFound
    /\ lwf_data = NoDataset
    /\ ret = NoResult

SpecResample == InitResample /\ [][NextResample]_vars

(***************************************************************************)
(* Properties of resample_SNODAS_to_CaPA                                   *)
(***************************************************************************)
Cells(ds) == Range(ds.lat) \X Range(ds.lon)

\* the closed box [min lat, max lat] x [min lon, max lon] of the source
InBox(src, c) ==
    /\ Min(Range(src.lat)) <= c[1] /\ c[1] <= Max(Range(src.lat))
    /\ Min(Range(src.lon)) <= c[2] /\ c[2] <= Max(Range(src.lon))

Ascending(a) == \A i \in 1..(Len(a) - 1) : a[i] < a[i + 1]

\* C8: the cells of the returned cropped target are exactly the target cells
\* in the closed bounding box of the source, for ascending and for descending
\* source axes.
C8_CropIsBox ==
    pc = "resampled" =>
      Cells(resampled[2]) = {c \in Cells(CaPA) : InBox(SNODAS_SWE, c)}

\* C8, for ascending source axes only: there the crop is the box.
C8_CropIsBoxAscending ==
    (pc = "resampled" /\ Ascending(SNODAS_SWE.lat) /\ Ascending(SNODAS_SWE.lon)) =>
      Cells(resampled[2]) = {c \in Cells(CaPA) : InBox(SNODAS_SWE, c)}

\* C9: every cell of the cropped target, and of the returned pair, lies in the
\* closed bounding box of the source.
C9_CropWithinBox ==
    /\ \A c \in Cells(cropped) : InBox(SNODAS_SWE, c)
    /\ pc = "resampled" =>
         /\ \A c \in Cells(resampled[1]) \cup Cells(resampled[2]) : InBox(SNODAS_SWE, c)
         /\ \A c \in Cells(resampled[2]) : c \in Cells(CaPA)

C9_Witness ==
    /\ pc = "resampled"
    /\ \E c \in Cells(CaPA) : ~InBox(SNODAS_SWE, c)
    /\ \E c \in Cells(resampled[2]) : c[2] = Max(Range(SNODAS_SWE.lon))
    /\ \E c \in Cells(resampled[2]) : c[1] = Min(Range(SNODAS_SWE.lat))
    /\ Cells(resampled[2]) # Cells(CaPA)

StepIdx == 1..Len(SNODAS_SWE.time)
FewPoints(k) == Cardinality(ValidPoints(SNODAS_SWE, k)) < 3

\* C10: a time step with fewer than 3 valid source points does not make
\* resample_SNODAS_to_CaPA fail: the call returns, that step is no data in
\* every cell, the other steps are interpolated.
C10_FewPointsNoFailure ==
    /\ pc = "error" => ~FewPoints(t + 1)
    /\ pc = "resampled" =>
         \A k \in StepIdx : FewPoints(k) =>
           \A i \in 1..Len(resampled[1].lat) : \A j \in 1..Len(resampled[1].lon) :
             IsNaN(resampled[1].vals[k][i][j])

\* C10 (what the code does): a call that returns had at least 3 valid points,
\* not all on one line, at every step.
C10_ReturnNeedsTriangles ==
    /\ pc = "resampled" => \A k \in StepIdx : ~FewPoints(k)
    /\ (pc = "interp" /\ t >= 1) => \A k \in 1..t : ~FewPoints(k)

\* C11: the resampled dataset returned has the time axis of the source, all
\* timestamps in the same order, and lat/lon axes elementwise identical to
\* those of the cropped target returned with it; its values have one entry
\* per (time, lat, lon).
C11_OutputAxes ==
    pc = "resampled" =>
      /\ resampled[1].time = SNODAS_SWE.time
      /\ resampled[1].lat = resampled[2].lat
      /\ resampled[1].lon = resampled[2].lon
      /\ DOMAIN resampled[1].vals = 1..Len(SNODAS_SWE.time)
      /\ \A k \in StepIdx :
           /\ DOMAIN resampled[1].vals[k] = 1..Len(resampled[2].lat)
           /\ \A i \in 1..Len(resampled[2].lat) :
                DOMAIN resampled[1].vals[k][i] = 1..Len(resampled[2].lon)

C11_Witness ==
    /\ pc = "resampled"
    /\ Len(resampled[1].time) = MaxSteps
    /\ Len(resampled[2].lat) >= 2
    /\ Len(resampled[2].lon) >= 2
    /\ resampled[2].lat # CaPA.lat
    /\ resampled[2].lon # CaPA.lon

\* p lies in no triangle spanned by three points of V: for points not all on
\* one line, p is strictly outside their convex hull
StrictlyOutsideHull(p, V) ==
    ~\E a \in V : \E b \in V : \E c \in V :
        Cross(a, b, c) > 0 /\ InTriangle(p, <<a, b, c>>)

OutAt(k, i, j) == resampled[1].vals[k][i][j]
OutPoint(i, j) == <<resampled[1].lat[i], resampled[1].lon[j]>>
OutLatIdx == 1..Len(resampled[1].lat)
OutLonIdx == 1..Len(resampled[1].lon)

\* C12: in the returned resampled dataset, at every time step, every cell
\* strictly outside the convex hull of the source points valid at that step is
\* no data; the hull is that of the step's own valid points.
C12_NoExtrapolation ==
    pc = "resampled" =>
      \A k \in StepIdx : \A i \in OutLatIdx : \A j \in OutLonIdx :
        StrictlyOutsideHull(OutPoint(i, j), ValidPoints(SNODAS_SWE, k))
          => IsNaN(OutAt(k, i, j))

\* a source point that is no data at one step and valid at another is outside
\* the hull, and no data in the output, at the first step only
C12_Witness ==
    /\ pc = "resampled"
    /\ \E k \in StepIdx : \E m \in StepIdx : \E i \in OutLatIdx : \E j \in OutLonIdx :
         /\ OutPoint(i, j) \in ValidPoints(SNODAS_SWE, m) \ ValidPoints(SNODAS_SWE, k)
         /\ StrictlyOutsideHull(OutPoint(i, j), ValidPoints(SNODAS_SWE, k))
         /\ IsNaN(OutAt(k, i, j))
         /\ ~IsNaN(OutAt(m, i, j))

SameGrid == CaPA.lat = SNODAS_SWE.lat /\ CaPA.lon = SNODAS_SWE.lon

\* every source cell of step k holds the same valid value
UniformStep(k) ==
    \A i \in 1..Len(SNODAS_SWE.lat) : \A j \in 1..Len(SNODAS_SWE.lon) :
      /\ ~IsNaN(SNODAS_SWE.vals[k][i][j])
      /\ SNODAS_SWE.vals[k][i][j] = SNODAS_SWE.vals[k][1][1]

\* the output of step k is the source field of step k, cell for cell
Reproduced(k) ==
    /\ resampled[1].lat = SNODAS_SWE.lat
    /\ resampled[1].lon = SNODAS_SWE.lon
    /\ resampled[1].vals[k] = SNODAS_SWE.vals[k]

\* C13: with the target on the grid of the source and every step of the source
\* a uniform valid field, the call returns and every cell of the grid, the
\* boundary included, holds the constant of its step in the output.
C13_UniformReproduced ==
    (SameGrid /\ \A k \in StepIdx : UniformStep(k)) =>
      /\ pc # "error"
      /\ pc = "resampled" => \A k \in StepIdx : Reproduced(k)

\* C13, for ascending axes with at least two labels each: there the uniform
\* field is reproduced.
C13_UniformAscending ==
    (/\ SameGrid /\ \A k \in StepIdx : UniformStep(k)
     /\ Ascending(SNODAS_SWE.lat) /\ Len(SNODAS_SWE.lat) >= 2
     /\ Ascending(SNODAS_SWE.lon) /\ Len(SNODAS_SWE.lon) >= 2) =>
      /\ pc # "error"
      /\ pc = "resampled" => \A k \in StepIdx : Reproduced(k)

(***************************************************************************)
(* resample_SNODAS_to_CaPA on grids that break the axis invariant          *)
(***************************************************************************)
StrictlyMonotonic(a) ==
    \/ \A i \in 1..(Len(a) - 1) : a[i] < a[i + 1]
    \/ \A i \in 1..(Len(a) - 1) : a[i] > a[i + 1]

\* axes of 2 or 3 labels with a duplicate or an out-of-order label
BadAxes ==
    {a \in [1..2 -> TargetCoords] \cup [1..3 -> TargetCoords] : ~StrictlyMonotonic(a)}

\* the fields of the source on such grids
BadGridKinds == {"u10", "dip"}

GoodSrcAxis == SortedSeq(SrcCoords)
GoodTargetAxis == SortedSeq(TargetCoords)

\* one of the four axes is bad, the others are good
InitBadGrid ==
    /\ IdleIO
    /\ pc = "resample"
    /\ err = ""
    /\ t = 0
    /\ \E bad \in BadAxes : \E which \in 1..4 : \E n \in 1..MaxSteps :
         \E sk \in [1..n -> BadGridKinds] :
           /\ SNODAS_SWE = SrcDataset([k \in 1..n |-> k - 1],
                                      IF which = 1 THEN bad ELSE GoodSrcAxis,
                                      IF which = 2 THEN bad ELSE GoodSrcAxis, sk)
           /\ CaPA = PrecipDataset(SortedSeq(Days),
                                   IF which = 3 THEN bad ELSE GoodTargetAxis,
                                   IF which = 4 THEN bad ELSE GoodTargetAxis,
                                   [k \in 1..(MaxDay + 1) |-> "grad"])
    /\ cropped = NoDataset
    /\ upscaled_swe = <<>>
    /\ resampled = NoResult
    /\ swe = NoDataset
    /\ precip = NoDataset
    /\ precip_current = NotFound
    /\ lwf_data = NoDataset
    /\ ret = NoResult

SpecBadGrid == InitBadGrid /\ [][NextResample]_vars

GridInvariant(ds) == StrictlyMonotonic(ds.lat) /\ StrictlyMonotonic(ds.lon)

\* C14: when the source or the target has a lat or lon axis with a duplicate
\* or out-of-order label, resample_SNODAS_to_CaPA returns no datasets.
C14_BadGridRejected ==
    (~GridInvariant(SNODAS_SWE) \/ ~GridInvariant(CaPA)) => pc # "resampled"

(***************************************************************************)
(* The two outputs of calculate_lwf                                        *)
(***************************************************************************)
\* x * 2^k on a float64
ScaleTwo(x, k) == IF x = NaN \/ x = Zero THEN x ELSE <<x[1], x[2], x[3], x[4] + k>>

\* float64 product x * 86400000, one multiplication
TimesDayMilli(x) ==
    ScaleTwo(FMulInt(x, OddPart(SecondsPerDay * MilliPerMetre)),
             TwoExp(SecondsPerDay * MilliPerMetre))

\* C15: in every valid cell of the outputs, lwf_rate * 86400000 equals
\* lwf_daily and lwf_daily equals the clamped flux: the conversion to the rate
\* and back loses nothing.
C15_RoundTrip ==
    pc = "done" =>
      \A tt \in OutRows : \A i \in LatIdx : \A j \in LonIdx :
        AllValid(tt, i, j) =>
          /\ TimesDayMilli(ret[1].vals[tt][i][j]) = ret[2].vals[tt][i][j]
          /\ ret[2].vals[tt][i][j] = FromInt(FluxAt(tt, i, j))

\* C15 (what the code does keep): lwf_daily is the stored rate times 86400
\* times 1000, each product rounded.
C15_DailyFromRate ==
    pc = "done" =>
      \A tt \in OutRows : \A i \in LatIdx : \A j \in LonIdx :
        ret[2].vals[tt][i][j] = ToDaily(ret[1].vals[tt][i][j])

(***************************************************************************)
(* The calls and their arguments                                           *)
(***************************************************************************)
\* the caller writes a cell of one returned dataset in place: every dataset
\* held in the same array sees the write
CallerWrites ==
    /\ pc = "done"
    /\ Len(ret[1].time) >= 1
    /\ \E r \in 1..2 :
         ret' = [k \in 1..2 |->
                   IF ret[k].array = ret[r].array
                   THEN [ret[k] EXCEPT !.vals[1][1][1] = NaN]
                   ELSE ret[k]]
    /\ pc' = "modified"
    /\ UNCHANGED <<err, t, swe, precip, precip_current, lwf_data, resampleVars, ioVars>>

\* a call of resample_SNODAS_to_CaPA or a call of calculate_lwf
InitFrame == InitResample \/ Init

NextFrame == NextResample \/ NextLwf \/ CallerWrites

SpecFrame == InitFrame /\ [][NextFrame]_vars

\* C16: no step of resample_SNODAS_to_CaPA or of calculate_lwf changes an
\* input dataset (the source, the uncropped target, swe, precip), and a write
\* to one dataset returned by calculate_lwf leaves the other as it was.
C16_InputsUnchanged ==
    [][/\ SNODAS_SWE' = SNODAS_SWE
       /\ CaPA' = CaPA
       /\ swe' = swe
       /\ precip' = precip
       /\ pc' = "modified" => \E r \in 1..2 : ret'[r] = ret[r]]_vars

C16_Witness ==
    /\ pc = "modified"
    /\ \E r \in 1..2 : IsNaN(ret[r].vals[1][1][1]) /\ ~IsNaN(ret[3 - r].vals[1][1][1])
    /\ \A k \in 1..Len(swe.time) : \A i \in 1..Len(swe.lat) : \A j \in 1..Len(swe.lon) :
         ~IsNaN(swe.vals[k][i][j])

\* the crop has dropped target cells and the caller's target still has them
C16_WitnessCrop ==
    /\ pc = "resampled"
    /\ Cells(resampled[2]) # Cells(CaPA)
    /\ Cells(resampled[2]) # {}

(***************************************************************************)
(* load_SNODAS and load_CaPA (lwf_calc/load_data.py)                       *)
(*                                                                         *)
(* archive.snodas maps the date of each stored SNODAS file to the field in *)
(* it; archive.capa is the time axis of the stored CaPA file, ascending.   *)
(***************************************************************************)
\* the fields a stored SNODAS file can hold
FileKinds == {"u8", "u10", "nan"}

Archives ==
    {[snodas |-> f, capa |-> SortedSeq(C)] :
       f \in UNION {[S -> FileKinds] : S \in SUBSET Days}, C \in SUBSET Days}

Requests ==
    {[start_date |-> a, end_date |-> b] : <<a, b>> \in {x \in Days \X Days : x[1] <= x[2]}}

\* load_data.py lines 37-59: the files dated in [start_date, end_date], an
\* error when there is none, sorted by name, concatenated along time
load_SNODAS(arch, start_date, end_date) ==
    LET date_files == {d \in DOMAIN arch.snodas : start_date <= d /\ d <= end_date}
        time == SortedSeq(date_files)
    IN IF date_files = {}
       THEN [raised |-> "ValueError", data |-> NoDataset]
       ELSE [raised |-> "",
             data |-> SrcDataset(time, GoodSrcAxis, GoodSrcAxis,
                                 [k \in 1..Len(time) |-> arch.snodas[time[k]]])]

\* load_data.py lines 93-108: ds.sel(time=slice(start_date, end_date)), the
\* records of the stored file with start_date <= time <= end_date
load_CaPA(arch, start_date, end_date) ==
    LET time == SelectSeq(arch.capa, LAMBDA d : start_date <= d /\ d <= end_date)
    IN [raised |-> "",
        data |-> PrecipDataset(time, GoodTargetAxis, GoodTargetAxis,
                               [k \in 1..Len(time) |-> "grad"])]

\* a call of load_SNODAS
CallLoadSNODAS ==
    /\ pc = "load"
    /\ LET r == load_SNODAS(archive, request.start_date, request.end_date)
       IN IF r.raised # ""
          THEN pc' = "error" /\ err' = r.raised /\ UNCHANGED SNODAS_SWE
          ELSE pc' = "loaded_SNODAS" /\ SNODAS_SWE' = r.data /\ UNCHANGED err
    /\ UNCHANGED <<t, CaPA, cropped, upscaled_swe, resampled, lwfVars, ioVars>>

\* a call of load_CaPA
CallLoadCaPA ==
    /\ pc = "load"
    /\ LET r == load_CaPA(archive, request.start_date, request.end_date)
       IN IF r.raised # ""
          THEN pc' = "error" /\ err' = r.raised /\ UNCHANGED CaPA
          ELSE pc' = "loaded_CaPA" /\ CaPA' = r.data /\ UNCHANGED err
    /\ UNCHANGED <<t, SNODAS_SWE, cropped, upscaled_swe, resampled, lwfVars, ioVars>>

NextLoad == CallLoadSNODAS \/ CallLoadCaPA

InitStores ==
    /\ archive \in Archives
    /\ request \in Requests
    /\ output = {}
    /\ log = <<>>
    /\ err = ""
    /\ t = 0
    /\ SNODAS_SWE = NoDataset
    /\ CaPA = NoDataset
    /\ cropped = NoDataset
    /\ upscaled_swe = <<>>
    /\ resampled = NoResult
    /\ swe = NoDataset
    /\ precip = NoDataset
    /\ precip_current = NotFound
    /\ lwf_data = NoDataset
    /\ ret = NoResult

InitLoad == InitStores /\ pc = "load"

SpecLoad == InitLoad /\ [][NextLoad]_vars

InRequest(d) == request.start_date <= d /\ d <= request.end_date
StoredSNODAS == {d \in DOMAIN archive.snodas : InRequest(d)}
StoredCaPA == {d \in Range(archive.capa) : InRequest(d)}

\* C17: each loader returns exactly the stored records dated in
\* [start_date, end_date], in ascending order of time, and fails, rather than
\* return an empty dataset, when no stored record is dated in the interval.
C17_LoadersNotFound ==
    /\ pc = "loaded_SNODAS" =>
         SNODAS_SWE.time = SortedSeq(StoredSNODAS) /\ SNODAS_SWE.time # <<>>
    /\ pc = "loaded_CaPA" =>
         CaPA.time = SortedSeq(StoredCaPA) /\ CaPA.time # <<>>

\* C17 (what the code does): both loaders return the records of the interval
\* in ascending order; load_SNODAS alone fails when there is none.
C17_RecordsOfInterval ==
    /\ pc = "loaded_SNODAS" =>
         SNODAS_SWE.time = SortedSeq(StoredSNODAS) /\ SNODAS_SWE.time # <<>>
    /\ pc = "loaded_CaPA" => CaPA.time = SortedSeq(StoredCaPA)
    /\ pc = "error" => StoredSNODAS = {} /\ err = "ValueError"

(***************************************************************************)
(* run_pipeline.main (scripts/run_pipeline.py)                             *)
(*                                                                         *)
(* log lists the steps in the order they ran, "error" after a step that    *)
(* raised, "completed" for the report of success; output is the set of     *)
(* files written.                                                          *)
(***************************************************************************)
ResultFiles == <<"lwf_m_s.nc", "lwf_mm_day.nc", "snodas_resampled.nc", "capa_cropped.nc">>
LwfFiles == {"lwf_m_s.nc", "lwf_mm_day.nc"}
StatisticsFile == "lwf_statistics.csv"

\* the archives download_new_files can leave: every file kept, new ones added
Downloaded(arch) ==
    {a \in Archives :
       /\ a.capa = arch.capa
       /\ DOMAIN arch.snodas \subseteq DOMAIN a.snodas
       /\ \A d \in DOMAIN a.snodas :
            a.snodas[d] = IF d \in DOMAIN arch.snodas THEN arch.snodas[d] ELSE "u10"}

\* lines 61-65 and 170-172: step 1; an error here ends the process
DownloadNewFiles ==
    /\ pc = "download"
    /\ \E ok \in BOOLEAN :
         IF ok
         THEN /\ archive' \in Downloaded(archive)
              /\ log' = Append(log, "download")
              /\ pc' = "load_SNODAS"
         ELSE /\ log' = log \o <<"download", "error">>
              /\ pc' = "exit"
              /\ UNCHANGED archive
    /\ UNCHANGED <<err, t, request, output, resampleVars, lwfVars>>

\* lines 67-77: step 2
LoadSNODASStep ==
    /\ pc = "load_SNODAS"
    /\ LET r == load_SNODAS(archive, request.start_date, request.end_date)
       IN IF r.raised # ""
          THEN /\ err' = r.raised
               /\ log' = log \o <<"load_SNODAS", "error">>
               /\ pc' = "returned"
               /\ UNCHANGED SNODAS_SWE
          ELSE /\ SNODAS_SWE' = r.data
               /\ log' = Append(log, "load_SNODAS")
               /\ pc' = "load_CaPA"
               /\ UNCHANGED err
    /\ UNCHANGED <<t, CaPA, cropped, upscaled_swe, resampled, lwfVars,
                   archive, request, output>>

\* lines 79-89: step 4; the report of the time range (line 84) takes the
\* minimum of the time axis, which raises on an empty axis
LoadCaPAStep ==
    /\ pc = "load_CaPA"
    /\ LET r == load_CaPA(archive, request.start_date, request.end_date)
       IN /\ CaPA' = r.data
          /\ IF r.data.time = <<>>
             THEN /\ err' = "ValueError"
                  /\ log' = log \o <<"load_CaPA", "error">>
                  /\ pc' = "returned"
             ELSE /\ log' = Append(log, "load_CaPA")
                  /\ pc' = "call_resample"
                  /\ UNCHANGED err
    /\ UNCHANGED <<t, SNODAS_SWE, cropped, upscaled_swe, resampled, lwfVars,
                   archive, request, output>>

\* line 94: step 5 calls resample_SNODAS_to_CaPA(snodas_swe, capa_data)
ResampleStep ==
    /\ pc = "call_resample"
    /\ log' = Append(log, "resample")
    /\ pc' = "resample"
    /\ UNCHANGED <<err, t, resampleVars, lwfVars, archive, request, output>>

\* lines 95-106: step 6 calls calculate_lwf(snodas_resampled, capa_cropped)
CalculateStep ==
    /\ pc = "resampled"
    /\ swe' = resampled[1]
    /\ precip' = resampled[2]
    /\ log' = Append(log, "calculate_lwf")
    /\ pc' = "lwf"
    /\ UNCHANGED <<err, t, precip_current, lwf_data, ret, resampleVars,
                   archive, request, output>>

\* the handler that main lets the error of a step reach and that goes on to
\* the saving of the results
ExceptAndGoOn ==
    /\ pc = "error"
    /\ log' = Append(log, "error")
    /\ pc' = "done"
    /\ ret' = <<lwf_data, lwf_data>>
    /\ UNCHANGED <<err, t, swe, precip, precip_current, lwf_data, resampleVars,
                   archive, request, output>>

\* lines 98-100 and 110-112: the error of step 5 or 6 is reported, main returns
ExceptStep ==
    /\ pc = "error"
    /\ log' = Append(log, "error")
    /\ pc' = "returned"
    /\ UNCHANGED <<err, t, lwfVars, resampleVars, archive, request, output>>

\* lines 115-134: step 7 writes the four files in order; a write can fail
SaveStep ==
    /\ pc = "done"
    /\ \E n \in 0..Len(ResultFiles) :
         /\ output' = output \cup {ResultFiles[k] : k \in 1..n}
         /\ IF n = Len(ResultFiles)
            THEN log' = Append(log, "save") /\ pc' = "statistics"
            ELSE log' = log \o <<"save", "error">> /\ pc' = "returned"
    /\ UNCHANGED <<err, t, lwfVars, resampleVars, archive, request>>

\* lwf has no cell: its maximum raises
NoCells(ds) == Len(ds.time) = 0 \/ Len(ds.lat) = 0 \/ Len(ds.lon) = 0

\* lines 136-161: step 8; its error is reported and main goes on
StatisticsStep ==
    /\ pc = "statistics"
    /\ \E ok \in (IF NoCells(ret[1]) THEN {FALSE} ELSE BOOLEAN) :
         IF ok
         THEN /\ output' = output \cup {StatisticsFile}
              /\ log' = Append(log, "statistics")
         ELSE /\ log' = log \o <<"statistics", "error">>
              /\ UNCHANGED output
    /\ pc' = "report"
    /\ UNCHANGED <<err, t, lwfVars, resampleVars, archive, request>>

\* lines 163-165: "Pipeline completed successfully!"
ReportSuccess ==
    /\ pc = "report"
    /\ log' = Append(log, "completed")
    /\ pc' = "end"
    /\ UNCHANGED <<err, t, lwfVars, resampleVars, archive, request, output>>

NextPipeline ==
    \/ DownloadNewFiles \/ LoadSNODASStep \/ LoadCaPAStep
    \/ ResampleStep \/ NextResample
    \/ CalculateStep \/ NextLwf
    \/ ExceptStep \/ SaveStep \/ StatisticsStep \/ ReportSuccess

InitPipeline == InitStores /\ pc = "download"

SpecPipeline == InitPipeline /\ [][NextPipeline]_vars
StepOrder ==
    <<"download", "load_SNODAS", "load_CaPA", "resample", "calculate_lwf", "save", "statistics">>

\* the steps that ran, in order
StepsRun == SelectSeq(log, LAMBDA e : e \notin {"error", "completed"})

IsPrefix(a, b) == Len(a) <= Len(b) /\ \A i \in 1..Len(a) : a[i] = b[i]

\* the step ran and raised
Failed(step) == \E i \in 1..(Len(log) - 1) : log[i] = step /\ log[i + 1] = "error"

\* C18: main runs its steps in the order download, load SNODAS, load CaPA,
\* resample, calculate LWF, save, statistics.  When a step from load SNODAS to
\* save raises, main has returned: that step is the last that ran and success
\* is not reported.  An LWF result file is written only after loading,
\* resampling and the calculation have all succeeded.  When the statistics
\* step raises, main goes on to report success, and success is reported only
\* after all seven steps ran.
C18_PipelineOrder ==
    /\ IsPrefix(StepsRun, StepOrder)
    /\ \A s \in {"load_SNODAS", "load_CaPA", "resample", "calculate_lwf", "save"} :
         Failed(s) =>
           /\ pc = "returned"
           /\ log[Len(log)] = "error"
           /\ log[Len(log) - 1] = s
           /\ "completed" \notin Range(log)
    /\ output \cap LwfFiles # {} =>
         /\ \A s \in {"load_SNODAS", "load_CaPA", "resample", "calculate_lwf"} :
              s \in Range(log) /\ ~Failed(s)
         /\ resampled # NoResult
         /\ ret # NoResult
    /\ Failed("statistics") => pc \in {"report", "end"}
    /\ pc = "end" <=> "completed" \in Range(log)
    /\ "completed" \in Range(log) => StepsRun = StepOrder

\* the statistics step alone failed: the results are written, success reported
C18_Witness ==
    /\ pc = "end"
    /\ Failed("statistics")
    /\ LwfFiles \subseteq output
    /\ ~NoCells(ret[1])
    /\ log[Len(log)] = "completed"

\* the resampling failed: main returned without a result file
C18_WitnessReturned ==
    /\ pc = "returned"
    /\ Failed("resample")
    /\ output = {}

====
